---- MODULE Spec2Model ----
(***************************************************************************)
(* The synchronous streaming bridge of pyodide_http: _StreamingFetcher.send *)
(* and _ReadStream (src/pyodide_http/_streaming.py) talking to the fetch    *)
(* worker through one SharedArrayBuffer per request (slot 0 = signal,       *)
(* slot 1 = secondary length, bytes from offset 8 = payload) and through    *)
(* the worker's message queue; and the callers of the bridge: _core.send    *)
(* (src/pyodide_http/_core.py), urlopen and PrefixedReader                  *)
(* (src/pyodide_http/_urllib.py).                                           *)
(***************************************************************************)
EXTENDS Integers, Sequences, FiniteSets, TLC

VARIABLES
    chans,          \* the requests (one Control Channel each) of this run
    request,        \* request[c]: the Request handed to send
    shared_buffer,  \* shared_buffer[c]: [int0, int1, bytes] of the SharedArrayBuffer
    msgs,           \* every message posted to the worker, in posting order
    whead,          \* number of messages the worker has taken from its queue
    wk,             \* wk[c]: the worker's side of connection c
    phase,          \* phase[c]: "new", "sending", "open", "failed"
    stream,         \* stream[c]: the _ReadStream object of the Response
    pc,             \* position of the (single-threaded) consumer
    cur,            \* channel of the call in progress
    byte_obj,       \* len(byte_obj) of the readinto call in progress
    wait_result,    \* what js.Atomics.wait returned to the call in progress
    res,            \* outcome of the last completed call
    hist,           \* hist[c]: history of channel c (observation only)
    nfaults,        \* exception, timeout and unknown signals written so far
    ntimeouts,      \* waits that timed out so far
    last,           \* outcome of the last completed send, urlopen or PrefixedReader call
    pr              \* the PrefixedReader object and the body stream it wraps

\* the streaming bridge
svars == <<chans, request, shared_buffer, msgs, whead, wk, phase, stream, pc,
           cur, byte_obj, wait_result, res, hist, nfaults, ntimeouts>>
\* the callers of the bridge: _core.send and _urllib.urlopen
uvars == <<last, pr>>

vars == <<svars, uvars>>

-----------------------------------------------------------------------------
(* Bounds of the model *)

PayloadSize == 3     \* bytes of the payload region
MaxBody     == 3     \* bytes the worker delivers on one connection
MaxBuf      == 2     \* largest len(byte_obj) passed to readinto
MaxMsgs     == 5     \* commands posted to the worker in one run
MaxFaults   == 1     \* exception, timeout and unknown signals the worker writes
MaxTimeouts == 1     \* waits of the consumer that time out

(* Signal values, _streaming.py lines 31-34 *)
SUCCESS_HEADER  == -1
SUCCESS_EOF     == -2
ERROR_TIMEOUT   == -3
ERROR_EXCEPTION == -4

None == 0            \* Python None (never a valid handle, id or timeout)

Min(a, b) == IF a < b THEN a ELSE b

Timeouts    == {0, 5}                 \* request.timeout, seconds
\* the (status, headers) pairs the worker answers with; headers as token sequences
Answers     == {[status |-> 200, headers |-> << >>], [status |-> 404, headers |-> <<21>>]}
BodyByte(k) == k                      \* the k-th byte of a response body
ChanTag == 50
ChanByte(c, k) == ChanTag * (c - 1) + BodyByte(k)   \* ... of connection c's body
CharBase    == 1000                   \* code points are kept apart from bytes
ErrorTexts  == {<<CharBase + 31>>, <<CharBase + 31, CharBase + 32>>}
BadSendSignals == {SUCCESS_EOF, 2, -5}
BadReadSignals == {SUCCESS_HEADER, -5}

ConnId(c) == 10 + c                   \* the connection id the worker assigns

-----------------------------------------------------------------------------
(* Text conversions *)

\* TextEncoder.encode: code points to bytes
TextEncode(str) == [i \in 1..Len(str) |-> str[i] - CharBase]

\* js.TextDecoder.new().decode(bytes): bytes to code points
TextDecode(bytes) == [i \in 1..Len(bytes) |-> bytes[i] + CharBase]

\* JSON.stringify({status, headers, connectionID}) in the worker
JsonDumps(obj) ==
    <<obj.status + CharBase, obj.connectionID + CharBase>>
        \o [i \in 1..Len(obj.headers) |-> obj.headers[i] + CharBase]

\* json.loads(json_str)
JsonLoads(str) ==
    [status       |-> str[1] - CharBase,
     connectionID |-> str[2] - CharBase,
     headers      |-> [i \in 1..(Len(str) - 2) |-> str[i + 2] - CharBase]]

\* Uint8Array.slice(begin, end) / subarray(begin, end): clamped to the array
Slice(buf, begin, end) == SubSeq(buf, begin + 1, Min(end, Len(buf)))

\* the worker writes bytes at the payload origin; the rest of the region stays
WriteRegion(old, bytes) == bytes \o SubSeq(old, Len(bytes) + 1, Len(old))

-----------------------------------------------------------------------------
(* Values *)

NoResponse == [status_code |-> 0, headers |-> << >>, stream |-> FALSE,
               body |-> [int_buffer |-> None, byte_buffer |-> None,
                         connection_id |-> None, timeout |-> None]]

NoResult == [op |-> "none", chan |-> None, kind |-> "none", ret |-> -1,
             resp |-> NoResponse, message |-> << >>, request |-> None,
             response |-> None, sig |-> 0, waited |-> "none",
             posted |-> FALSE, afterEof |-> FALSE]

NoStream == [int_buffer |-> None, byte_buffer |-> None, read_pos |-> 0,
             read_len |-> 0, connection_id |-> None, timeout |-> None,
             closed |-> FALSE, finalized |-> FALSE]

NoHeader == [status |-> 0, headers |-> << >>, connectionID |-> None]

\* no send, urlopen or PrefixedReader call has completed yet
NoLast == [op |-> "none", kind |-> "none",
           stream |-> FALSE, req_headers |-> << >>, in_worker |-> FALSE,
           proxy |-> FALSE, credentials |-> FALSE, path |-> "none",
           resp |-> [status_code |-> 0, headers |-> << >>, stream |-> FALSE],
           arg |-> "", block |-> << >>, status |-> 0, headers |-> << >>,
           url |-> "",
           size |-> 0, ret |-> -1]

\* no PrefixedReader has been constructed yet
NoReader == [made |-> FALSE, has_prefix |-> FALSE, prefix |-> << >>,
             H |-> << >>, data |-> << >>, pos |-> 0, returned |-> << >>,
             nraise |-> 0]

InitUrl ==
    /\ last = NoLast
    /\ pr = NoReader

InitRest ==
    /\ request \in [chans -> [timeout : Timeouts]]
    /\ shared_buffer = [c \in chans |->
                          [int0 |-> 0, int1 |-> 0, bytes |-> [i \in 1..PayloadSize |-> 0]]]
    /\ msgs = << >>
    /\ whead = 0
    /\ wk = [c \in chans |-> [hdr |-> NoHeader, text |-> << >>, eof |-> FALSE,
                              forgotten |-> FALSE]]
    /\ phase = [c \in chans |-> "new"]
    /\ stream = [c \in chans |-> NoStream]
    /\ pc = "idle"
    /\ cur = None
    /\ byte_obj = 0
    /\ wait_result = "none"
    /\ res = NoResult
    /\ nfaults = 0
    /\ ntimeouts = 0
    /\ hist = [c \in chans |-> [received |-> << >>, delivered |-> << >>,
                                eofObserved |-> FALSE, readTimedOut |-> FALSE,
                                ncmd |-> 0, nconsumed |-> 0]]

Init == chans = {1} /\ InitRest /\ InitUrl

-----------------------------------------------------------------------------
(* _StreamingFetcher.send, _streaming.py lines 115-196 *)

TimeoutText == <<CharBase + 41>>   \* "Timeout connecting to streaming request"
FetchText   == <<CharBase + 42>>   \* "Exception thrown in fetch: "

\* line 123: timeout = int(1000 * request.timeout) if request.timeout > 0 else None
SendTimeout(t) == IF t > 0 THEN 1000 * t ELSE None

\* a timeout of 0 turned into the shortest wait instead of no deadline
StreamTimeout_Shortest(t) == IF t > 0 THEN 1000 * t ELSE 1

\* line 49: self.timeout = int(1000 * timeout) if timeout > 0 else None
StreamTimeout(t) == IF t > 0 THEN 1000 * t ELSE None

Post(m) == msgs' = Append(msgs, m)

Command(c) == hist' = [hist EXCEPT ![c].ncmd = @ + 1]

\* lines 123-148: fresh buffer, reset sentinel, start command
SendBegin(c) ==
    /\ pc = "idle"
    /\ phase[c] = "new"
    /\ Len(msgs) < MaxMsgs
    /\ shared_buffer' = [shared_buffer EXCEPT ![c].int0 = 0]
    /\ Post([type |-> "start", arg |-> c])
    /\ Command(c)
    /\ phase' = [phase EXCEPT ![c] = "sending"]
    /\ pc' = "send_posted"
    /\ cur' = c
    /\ wait_result' = "none"
    /\ UNCHANGED <<chans, request, whead, wk, stream, byte_obj, res>>
    /\ UNCHANGED <<nfaults, ntimeouts>>

\* line 152: js.Atomics.wait(int_buffer, 0, 0, timeout) is entered
SendEnterWait(c) ==
    /\ pc = "send_posted"
    /\ cur = c
    /\ IF shared_buffer[c].int0 # 0
         THEN pc' = "send_woke" /\ wait_result' = "not-equal"
         ELSE pc' = "send_waiting" /\ wait_result' = "none"
    /\ UNCHANGED <<chans, request, shared_buffer, msgs, whead, wk, phase, stream,
                   cur, byte_obj, res, hist>>
    /\ UNCHANGED <<nfaults, ntimeouts>>

\* line 152: the worker's notify wakes the wait
SendWake(c) ==
    /\ pc = "send_waiting"
    /\ cur = c
    /\ shared_buffer[c].int0 # 0
    /\ pc' = "send_woke"
    /\ wait_result' = "ok"
    /\ UNCHANGED <<chans, request, shared_buffer, msgs, whead, wk, phase, stream,
                   cur, byte_obj, res, hist>>
    /\ UNCHANGED <<nfaults, ntimeouts>>

\* line 152: the deadline passes while slot 0 is still 0
SendWaitTimeout(c) ==
    /\ pc = "send_waiting"
    /\ cur = c
    /\ SendTimeout(request[c].timeout) # None
    /\ shared_buffer[c].int0 = 0
    /\ ntimeouts < MaxTimeouts
    /\ ntimeouts' = ntimeouts + 1
    /\ pc' = "send_woke"
    /\ wait_result' = "timed-out"
    /\ UNCHANGED <<chans, request, shared_buffer, msgs, whead, wk, phase, stream,
                   cur, byte_obj, res, hist>>
    /\ UNCHANGED nfaults

\* a bare raise _StreamingTimeout, as readinto has it
SendRaiseTimeout_Bare(c) ==
    [kind |-> "_StreamingTimeout", message |-> << >>, request |-> None,
     response |-> None, resp |-> NoResponse]

\* lines 156-160: raise _StreamingTimeout(text, request=request, response=None)
SendRaiseTimeout(c) ==
    [kind |-> "_StreamingTimeout", message |-> TimeoutText, request |-> c,
     response |-> None, resp |-> NoResponse]

\* the header blob sliced one byte too long
HeaderObj_LongSlice(sb) ==
    JsonLoads(TextDecode(Slice(sb.bytes, 0, sb.int1 + 1)))

\* lines 164-171: the header blob decoded
HeaderObj(sb) ==
    LET string_len == sb.int1
        json_str   == TextDecode(Slice(sb.bytes, 0, string_len))
    IN  JsonLoads(json_str)

\* lines 172-186: Response(status_code, headers, body=_ReadStream(...), stream=True)
SendResponse(c, sb) ==
    LET response_obj == HeaderObj(sb)
    IN  [status_code |-> response_obj.status,
         headers     |-> response_obj.headers,
         stream      |-> TRUE,
         body        |-> [int_buffer    |-> c,
                          byte_buffer   |-> c,
                          connection_id |-> response_obj.connectionID,
                          timeout       |-> StreamTimeout(request[c].timeout)]]

\* a bare raise _StreamingError, as readinto has it
SendRaiseError_Bare(c, sb) ==
    [kind |-> "_StreamingError", message |-> << >>, request |-> None,
     response |-> None, resp |-> NoResponse]

\* lines 188-196: raise _StreamingError(f"Exception thrown in fetch: {json_str}", ...)
SendRaiseError(c, sb) ==
    LET string_len == sb.int1
        json_str   == TextDecode(Slice(sb.bytes, 0, string_len))
    IN  [kind |-> "_StreamingError", message |-> FetchText \o json_str,
         request |-> c, response |-> None, resp |-> NoResponse]

\* lines 153-196: the outcome of send for the value read from slot 0
SendOutcome(c, sb) ==
    IF sb.int0 = 0 THEN SendRaiseTimeout(c)
    ELSE IF sb.int0 = SUCCESS_HEADER
         THEN [kind |-> "Response", message |-> << >>, request |-> None,
               response |-> None, resp |-> SendResponse(c, sb)]
    ELSE IF sb.int0 = ERROR_EXCEPTION THEN SendRaiseError(c, sb)
    ELSE [kind |-> "None", message |-> << >>, request |-> None,
          response |-> None, resp |-> NoResponse]

\* __init__, lines 42-49
NewStream(body) ==
    [int_buffer |-> body.int_buffer, byte_buffer |-> body.byte_buffer,
     read_pos |-> 0, read_len |-> 0, connection_id |-> body.connection_id,
     timeout |-> body.timeout, closed |-> FALSE, finalized |-> FALSE]

\* lines 153-196: slot 0 is read and send returns or raises
SendDispatch(c) ==
    /\ pc = "send_woke"
    /\ cur = c
    /\ LET sb  == shared_buffer[c]
           out == SendOutcome(c, sb)
       IN  /\ res' = [op |-> "send", chan |-> c, kind |-> out.kind, ret |-> -1,
                      resp |-> out.resp, message |-> out.message,
                      request |-> out.request, response |-> out.response,
                      sig |-> sb.int0, waited |-> wait_result, posted |-> TRUE,
                      afterEof |-> FALSE]
           /\ IF out.kind = "Response"
                THEN /\ phase' = [phase EXCEPT ![c] = "open"]
                     /\ stream' = [stream EXCEPT ![c] = NewStream(out.resp.body)]
                ELSE /\ phase' = [phase EXCEPT ![c] = "failed"]
                     /\ stream' = stream
           /\ hist' = [hist EXCEPT ![c].nconsumed = IF sb.int0 # 0 THEN @ + 1 ELSE @]
    /\ pc' = "idle"
    /\ cur' = None
    /\ wait_result' = "none"
    /\ UNCHANGED <<chans, request, shared_buffer, msgs, whead, wk, byte_obj>>
    /\ UNCHANGED <<nfaults, ntimeouts>>

-----------------------------------------------------------------------------
(* _ReadStream, _streaming.py lines 41-96 *)

ReadPcs == {"read_posted", "read_waiting", "read_woke"}

Usable(c) == pc = "idle" /\ phase[c] = "open" /\ ~stream[c].finalized

\* the dead-stream test never succeeding
NotIntBuffer_Never(s) == FALSE

\* line 64: not self.int_buffer
NotIntBuffer(s) == s.int_buffer = None

\* line 90: ret_length = min(self.read_len, len(byte_obj))
RetLength(s, n) == Min(s.read_len, n)

\* lines 91-93: byte_buffer.subarray(read_pos, read_pos + ret_length) copied out
Subarray(s, bytes, n) == Slice(bytes, s.read_pos, s.read_pos + RetLength(s, n))

\* lines 94-95: the cursor after the copy
Advance(s, n) ==
    [s EXCEPT !.read_len = @ - RetLength(s, n), !.read_pos = @ + RetLength(s, n)]

\* lines 76-77: a chunk of data_len bytes is ready at the payload origin
NewChunk(s, data_len) == [s EXCEPT !.read_len = data_len, !.read_pos = 0]

\* lines 84-87: the buffers are dropped
Dead(s) == [s EXCEPT !.read_len = 0, !.read_pos = 0, !.int_buffer = None,
                     !.byte_buffer = None]

\* the EOF branch posting {"close": connection_id} itself
EofPosts_Close(cid) == <<[type |-> "close", arg |-> cid]>>

\* lines 82-88: messages the EOF branch posts to the worker
EofPosts(cid) == << >>

\* lines 51-52: __del__ posts {"close": connection_id}
DelPosts(cid) == <<[type |-> "close", arg |-> cid]>>

\* lines 41-62: the class defines no close(); io.RawIOBase.close posts nothing
ClosePosts(cid) == << >>

ReadReturn(c, n, posted, waited, sig) ==
    [op |-> "readinto", chan |-> c, kind |-> "int", ret |-> n, resp |-> NoResponse,
     message |-> << >>, request |-> None, response |-> None, sig |-> sig,
     waited |-> waited, posted |-> posted, afterEof |-> hist[c].eofObserved]

ReadRaise(c, kind, waited, sig) ==
    [op |-> "readinto", chan |-> c, kind |-> kind, ret |-> -1, resp |-> NoResponse,
     message |-> << >>, request |-> None, response |-> None, sig |-> sig,
     waited |-> waited, posted |-> TRUE, afterEof |-> hist[c].eofObserved]

\* lines 64-65: the stream is dead, return 0
ReadDead(c, n) ==
    /\ Usable(c)
    /\ NotIntBuffer(stream[c])
    /\ res' = ReadReturn(c, 0, FALSE, "none", 0)
    /\ UNCHANGED <<chans, request, shared_buffer, msgs, whead, wk, phase, stream,
                   pc, cur, byte_obj, wait_result, hist>>
    /\ UNCHANGED <<nfaults, ntimeouts>>

\* lines 64-66, 90-96: bytes of the last chunk are still unread
ReadBuffered(c, n) ==
    /\ Usable(c)
    /\ ~NotIntBuffer(stream[c])
    /\ stream[c].read_len # 0
    /\ res' = ReadReturn(c, RetLength(stream[c], n), FALSE, "none", 0)
    /\ hist' = [hist EXCEPT ![c].received =
                   @ \o Subarray(stream[c], shared_buffer[c].bytes, n)]
    /\ stream' = [stream EXCEPT ![c] = Advance(@, n)]
    /\ UNCHANGED <<chans, request, shared_buffer, msgs, whead, wk, phase, pc, cur,
                   byte_obj, wait_result>>
    /\ UNCHANGED <<nfaults, ntimeouts>>

\* a readinto that posts getMore without first storing 0 in slot 0
ReadBegin_NoStore(c, n) ==
    /\ Usable(c)
    /\ ~NotIntBuffer(stream[c])
    /\ stream[c].read_len = 0
    /\ Len(msgs) < MaxMsgs
    /\ Post([type |-> "getMore", arg |-> stream[c].connection_id])
    /\ Command(c)
    /\ pc' = "read_posted"
    /\ cur' = c
    /\ byte_obj' = n
    /\ wait_result' = "none"
    /\ UNCHANGED <<chans, request, shared_buffer, whead, wk, phase, stream, res>>
    /\ UNCHANGED <<nfaults, ntimeouts>>

\* lines 66-69: reset sentinel, getMore command
ReadBegin(c, n) ==
    /\ Usable(c)
    /\ ~NotIntBuffer(stream[c])
    /\ stream[c].read_len = 0
    /\ Len(msgs) < MaxMsgs
    /\ shared_buffer' = [shared_buffer EXCEPT ![c].int0 = 0]
    /\ Post([type |-> "getMore", arg |-> stream[c].connection_id])
    /\ Command(c)
    /\ pc' = "read_posted"
    /\ cur' = c
    /\ byte_obj' = n
    /\ wait_result' = "none"
    /\ UNCHANGED <<chans, request, whead, wk, phase, stream, res>>
    /\ UNCHANGED <<nfaults, ntimeouts>>

\* line 70: js.Atomics.wait(self.int_buffer, 0, 0, self.timeout) is entered
ReadEnterWait(c) ==
    /\ pc = "read_posted"
    /\ cur = c
    /\ IF shared_buffer[c].int0 # 0
         THEN pc' = "read_woke" /\ wait_result' = "not-equal"
         ELSE pc' = "read_waiting" /\ wait_result' = "none"
    /\ UNCHANGED <<chans, request, shared_buffer, msgs, whead, wk, phase, stream,
                   cur, byte_obj, res, hist>>
    /\ UNCHANGED <<nfaults, ntimeouts>>

\* line 70: the worker's notify wakes the wait
ReadWake(c) ==
    /\ pc = "read_waiting"
    /\ cur = c
    /\ shared_buffer[c].int0 # 0
    /\ pc' = "read_woke"
    /\ wait_result' = "ok"
    /\ UNCHANGED <<chans, request, shared_buffer, msgs, whead, wk, phase, stream,
                   cur, byte_obj, res, hist>>
    /\ UNCHANGED <<nfaults, ntimeouts>>

\* line 70: the deadline passes while slot 0 is still 0
ReadWaitTimeout(c) ==
    /\ pc = "read_waiting"
    /\ cur = c
    /\ stream[c].timeout # None
    /\ shared_buffer[c].int0 = 0
    /\ ntimeouts < MaxTimeouts
    /\ ntimeouts' = ntimeouts + 1
    /\ pc' = "read_woke"
    /\ wait_result' = "timed-out"
    /\ UNCHANGED <<chans, request, shared_buffer, msgs, whead, wk, phase, stream,
                   cur, byte_obj, res, hist>>
    /\ UNCHANGED nfaults

\* lines 70-96: the wait result is tested, slot 0 is read, readinto returns or raises
ReadDispatch(c) ==
    /\ pc = "read_woke"
    /\ cur = c
    /\ LET sb       == shared_buffer[c]
           data_len == sb.int0
           s        == stream[c]
           s1       == NewChunk(s, data_len)
       IN  IF wait_result = "timed-out"
             THEN \* lines 70-73: raise _StreamingTimeout
                  /\ res' = ReadRaise(c, "_StreamingTimeout", wait_result, 0)
                  /\ hist' = [hist EXCEPT ![c].readTimedOut = TRUE]
                  /\ UNCHANGED <<stream, msgs>>
           ELSE IF data_len > 0
             THEN \* lines 75-77, 90-96
                  /\ res' = ReadReturn(c, RetLength(s1, byte_obj), TRUE,
                                       wait_result, data_len)
                  /\ hist' = [hist EXCEPT
                                ![c].received = @ \o Subarray(s1, sb.bytes, byte_obj),
                                ![c].nconsumed = @ + 1]
                  /\ stream' = [stream EXCEPT ![c] = Advance(s1, byte_obj)]
                  /\ UNCHANGED msgs
           ELSE IF data_len = ERROR_EXCEPTION
             THEN \* lines 78-81: raise _StreamingError
                  /\ res' = ReadRaise(c, "_StreamingError", wait_result, data_len)
                  /\ hist' = [hist EXCEPT ![c].nconsumed = @ + 1]
                  /\ UNCHANGED <<stream, msgs>>
             ELSE \* lines 82-88: EOF
                  /\ res' = ReadReturn(c, 0, TRUE, wait_result, data_len)
                  /\ hist' = [hist EXCEPT
                                ![c].eofObserved = @ \/ data_len = SUCCESS_EOF,
                                ![c].nconsumed = @ + 1]
                  /\ stream' = [stream EXCEPT ![c] = Dead(@)]
                  /\ msgs' = msgs \o EofPosts(s.connection_id)
    /\ pc' = "idle"
    /\ cur' = None
    /\ byte_obj' = 0
    /\ wait_result' = "none"
    /\ UNCHANGED <<chans, request, shared_buffer, whead, wk, phase>>
    /\ UNCHANGED <<nfaults, ntimeouts>>

\* the caller closes the stream explicitly (io.RawIOBase.close)
Close(c) ==
    /\ Usable(c)
    /\ ~stream[c].closed
    /\ stream' = [stream EXCEPT ![c].closed = TRUE]
    /\ msgs' = msgs \o ClosePosts(stream[c].connection_id)
    /\ UNCHANGED <<chans, request, shared_buffer, whead, wk, phase, pc, cur,
                   byte_obj, wait_result, res, hist>>
    /\ UNCHANGED <<nfaults, ntimeouts>>

\* a __del__ that stores 0, posts the close and waits for the worker to answer it
Finalize_Waits(c) ==
    /\ Usable(c)
    /\ stream' = [stream EXCEPT ![c].finalized = TRUE]
    /\ msgs' = msgs \o <<[type |-> "close", arg |-> stream[c].connection_id]>>
    /\ shared_buffer' = [shared_buffer EXCEPT ![c].int0 = 0]
    /\ pc' = "read_posted"
    /\ cur' = c
    /\ UNCHANGED <<chans, request, whead, wk, phase, byte_obj, wait_result, res, hist>>
    /\ UNCHANGED <<nfaults, ntimeouts>>

\* lines 51-52: the stream is finalized (__del__)
Finalize(c) ==
    /\ Usable(c)
    /\ stream' = [stream EXCEPT ![c].finalized = TRUE]
    /\ msgs' = msgs \o DelPosts(stream[c].connection_id)
    /\ UNCHANGED <<chans, request, shared_buffer, whead, wk, phase, pc, cur,
                   byte_obj, wait_result, res, hist>>
    /\ UNCHANGED <<nfaults, ntimeouts>>

-----------------------------------------------------------------------------
(* The fetch worker: takes the messages in posting order and answers each     *)
(* command with one signal written into the command's Control Channel.       *)

HeadIs(type, arg) ==
    /\ whead < Len(msgs)
    /\ msgs[whead + 1].type = type
    /\ msgs[whead + 1].arg = arg

HeadIsCommand(c) == HeadIs("start", c) \/ HeadIs("getMore", ConnId(c))

Signal(c, sig, len, bytes) ==
    shared_buffer' = [shared_buffer EXCEPT ![c] =
        [int0 |-> sig, int1 |-> len, bytes |-> WriteRegion(@.bytes, bytes)]]

\* header-ready: signal -1, slot 1 = length, payload = JSON {status, headers, connectionID}
WorkerHeader(c) ==
    /\ HeadIs("start", c)
    /\ \E a \in Answers :
         LET hdr   == [status |-> a.status, headers |-> a.headers, connectionID |-> ConnId(c)]
             bytes == TextEncode(JsonDumps(hdr))
         IN  /\ Len(bytes) <= PayloadSize
             /\ Signal(c, SUCCESS_HEADER, Len(bytes), bytes)
             /\ wk' = [wk EXCEPT ![c].hdr = hdr]
    /\ whead' = whead + 1
    /\ UNCHANGED <<chans, request, msgs, phase, stream, pc, cur, byte_obj,
                   wait_result, res, hist>>
    /\ UNCHANGED <<nfaults, ntimeouts>>

\* chunk: signal N > 0, payload = next N bytes
WorkerChunk(c) ==
    /\ HeadIs("getMore", ConnId(c))
    /\ ~wk[c].eof
    /\ \E n \in 1..Min(PayloadSize, MaxBody - Len(hist[c].delivered)) :
         LET chunk == [i \in 1..n |-> ChanByte(c, Len(hist[c].delivered) + i)]
         IN  /\ Signal(c, n, shared_buffer[c].int1, chunk)
             /\ hist' = [hist EXCEPT ![c].delivered = @ \o chunk]
    /\ whead' = whead + 1
    /\ UNCHANGED <<chans, request, msgs, wk, phase, stream, pc, cur, byte_obj,
                   wait_result, res>>
    /\ UNCHANGED <<nfaults, ntimeouts>>

\* eof: signal -2
WorkerEof(c) ==
    /\ HeadIs("getMore", ConnId(c))
    /\ Signal(c, SUCCESS_EOF, shared_buffer[c].int1, << >>)
    /\ wk' = [wk EXCEPT ![c].eof = TRUE]
    /\ whead' = whead + 1
    /\ UNCHANGED <<chans, request, msgs, phase, stream, pc, cur, byte_obj,
                   wait_result, res, hist>>
    /\ UNCHANGED <<nfaults, ntimeouts>>

\* exception: signal -4, slot 1 = message length, payload = UTF-8 message
WorkerException(c) ==
    /\ HeadIsCommand(c)
    /\ \E text \in ErrorTexts :
         /\ Signal(c, ERROR_EXCEPTION, Len(text), TextEncode(text))
         /\ wk' = [wk EXCEPT ![c].text = text]
    /\ nfaults < MaxFaults
    /\ nfaults' = nfaults + 1
    /\ whead' = whead + 1
    /\ UNCHANGED <<chans, request, msgs, phase, stream, pc, cur, byte_obj,
                   wait_result, res, hist>>
    /\ UNCHANGED ntimeouts

\* timeout: signal -3
WorkerTimeout(c) ==
    /\ HeadIsCommand(c)
    /\ Signal(c, ERROR_TIMEOUT, shared_buffer[c].int1, << >>)
    /\ nfaults < MaxFaults
    /\ nfaults' = nfaults + 1
    /\ whead' = whead + 1
    /\ UNCHANGED <<chans, request, msgs, wk, phase, stream, pc, cur, byte_obj,
                   wait_result, res, hist>>
    /\ UNCHANGED ntimeouts

\* a signal value the step does not know (worker bug or version mismatch)
WorkerBadSignal(c) ==
    /\ \E sig \in BadSendSignals \cup BadReadSignals :
         /\ \/ HeadIs("start", c) /\ sig \in BadSendSignals
            \/ HeadIs("getMore", ConnId(c)) /\ sig \in BadReadSignals
         /\ Signal(c, sig, shared_buffer[c].int1, << >>)
    /\ nfaults < MaxFaults
    /\ nfaults' = nfaults + 1
    /\ whead' = whead + 1
    /\ UNCHANGED <<chans, request, msgs, wk, phase, stream, pc, cur, byte_obj,
                   wait_result, res, hist>>
    /\ UNCHANGED ntimeouts

\* forget/close: the connection is dropped
WorkerForget(c) ==
    /\ HeadIs("close", ConnId(c))
    /\ wk' = [wk EXCEPT ![c].forgotten = TRUE]
    /\ whead' = whead + 1
    /\ UNCHANGED <<chans, request, shared_buffer, msgs, phase, stream, pc, cur,
                   byte_obj, wait_result, res, hist>>
    /\ UNCHANGED <<nfaults, ntimeouts>>

-----------------------------------------------------------------------------

Next ==
    \/ \E c \in chans : SendBegin(c) /\ UNCHANGED uvars
    \/ \E c \in chans : SendEnterWait(c) /\ UNCHANGED uvars
    \/ \E c \in chans : SendWake(c) /\ UNCHANGED uvars
    \/ \E c \in chans : SendWaitTimeout(c) /\ UNCHANGED uvars
    \/ \E c \in chans : SendDispatch(c) /\ UNCHANGED uvars
    \/ \E c \in chans : \E n \in 1..MaxBuf : ReadDead(c, n) /\ UNCHANGED uvars
    \/ \E c \in chans : \E n \in 1..MaxBuf : ReadBuffered(c, n) /\ UNCHANGED uvars
    \/ \E c \in chans : \E n \in 1..MaxBuf : ReadBegin(c, n) /\ UNCHANGED uvars
    \/ \E c \in chans : ReadEnterWait(c) /\ UNCHANGED uvars
    \/ \E c \in chans : ReadWake(c) /\ UNCHANGED uvars
    \/ \E c \in chans : ReadWaitTimeout(c) /\ UNCHANGED uvars
    \/ \E c \in chans : ReadDispatch(c) /\ UNCHANGED uvars
    \/ \E c \in chans : Close(c) /\ UNCHANGED uvars
    \/ \E c \in chans : Finalize(c) /\ UNCHANGED uvars
    \/ \E c \in chans : WorkerHeader(c) /\ UNCHANGED uvars
    \/ \E c \in chans : WorkerChunk(c) /\ UNCHANGED uvars
    \/ \E c \in chans : WorkerEof(c) /\ UNCHANGED uvars
    \/ \E c \in chans : WorkerException(c) /\ UNCHANGED uvars
    \/ \E c \in chans : WorkerTimeout(c) /\ UNCHANGED uvars
    \/ \E c \in chans : WorkerBadSignal(c) /\ UNCHANGED uvars
    \/ \E c \in chans : WorkerForget(c) /\ UNCHANGED uvars

Spec == Init /\ [][Next]_vars

\* two requests sent to the same worker
Init2 == chans = {1, 2} /\ InitRest /\ InitUrl

\* the sends and reads of both streams and the worker's answers to them
Next2 ==
    \/ \E c \in chans : SendBegin(c) /\ UNCHANGED uvars
    \/ \E c \in chans : SendEnterWait(c) /\ UNCHANGED uvars
    \/ \E c \in chans : SendWake(c) /\ UNCHANGED uvars
    \/ \E c \in chans : SendDispatch(c) /\ UNCHANGED uvars
    \/ \E c \in chans : \E n \in 1..MaxBuf : ReadBuffered(c, n) /\ UNCHANGED uvars
    \/ \E c \in chans : \E n \in 1..MaxBuf : ReadBegin(c, n) /\ UNCHANGED uvars
    \/ \E c \in chans : ReadEnterWait(c) /\ UNCHANGED uvars
    \/ \E c \in chans : ReadWake(c) /\ UNCHANGED uvars
    \/ \E c \in chans : ReadWaitTimeout(c) /\ UNCHANGED uvars
    \/ \E c \in chans : ReadDispatch(c) /\ UNCHANGED uvars
    \/ \E c \in chans : WorkerHeader(c) /\ UNCHANGED uvars
    \/ \E c \in chans : WorkerChunk(c) /\ UNCHANGED uvars
    \/ \E c \in chans : WorkerEof(c) /\ UNCHANGED uvars

Spec2 == Init2 /\ [][Next2]_vars

-----------------------------------------------------------------------------
(* _core.send and orig_send, _core.py lines 78-215 *)

\* str.lower() on code points
Lower(str) ==
    [i \in 1..Len(str) |->
        IF str[i] - CharBase \in 65..90 THEN str[i] + 32 ELSE str[i]]

Range(f) == {f[i] : i \in DOMAIN f}

ORIGIN  == TextDecode(<<111, 114, 105, 103, 105, 110>>)
COOKIE  == TextDecode(<<99, 111, 111, 107, 105, 101>>)
COOKIE2 == TextDecode(<<99, 111, 111, 107, 105, 101, 50>>)
proxy_headers       == {ORIGIN}
credentials_headers == {COOKIE, COOKIE2}
blocked_headers ==
    {TextDecode(<<115, 101, 99, 45, 102, 101, 116, 99, 104, 45, 109, 111, 100, 101>>),
     TextDecode(<<97, 99, 99, 101, 112, 116, 45, 101, 110, 99, 111, 100, 105, 110, 103>>),
     ORIGIN,
     TextDecode(<<114, 101, 102, 101, 114, 101, 114>>),
     TextDecode(<<117, 115, 101, 114, 45, 97, 103, 101, 110, 116>>),
     COOKIE, COOKIE2}

\* names of the request headers a caller sets: Origin, Cookie, Accept
RequestHeaderPool ==
    <<TextDecode(<<79, 114, 105, 103, 105, 110>>),
      TextDecode(<<67, 111, 111, 107, 105, 101>>),
      TextDecode(<<65, 99, 99, 101, 112, 116>>)>>
RequestHeaders ==
    {SelectSeq(RequestHeaderPool, LAMBDA h : h \in S) :
        S \in SUBSET Range(RequestHeaderPool)}

\* the Response of XMLHttpRequest or of proxy_fetch: Response(...) leaves stream False
MaterializedResponse == [status_code |-> 200, headers |-> << >>, stream |-> FALSE]

\* orig_send(request, stream, withCredentials): in a worker a true stream
\* calls send_streaming_request(request), one argument short of its signature
orig_send(streaming, in_worker) ==
    IF streaming /\ in_worker
        THEN [kind |-> "TypeError", path |-> "send_streaming_request"]
        ELSE [kind |-> "Response", path |-> "XMLHttpRequest"]

\* send(request, stream)
CoreSend(hs, st, w) ==
    LET proxy       == \E i \in 1..Len(hs) :
                          Lower(hs[i]) \in blocked_headers /\ Lower(hs[i]) \in proxy_headers
        credentials == \E i \in 1..Len(hs) :
                          Lower(hs[i]) \in blocked_headers
                              /\ Lower(hs[i]) \in credentials_headers
        new_headers == SelectSeq(hs, LAMBDA h : Lower(h) \notin blocked_headers)
        out == IF proxy
                   THEN IF st THEN [kind |-> "Exception", path |-> "none"]
                              ELSE [kind |-> "Response", path |-> "proxy_fetch"]
                   ELSE orig_send(TRUE, w)
    IN  /\ last' = [NoLast EXCEPT !.op = "send", !.kind = out.kind,
                                  !.stream = st, !.req_headers = new_headers,
                                  !.in_worker = w, !.proxy = proxy,
                                  !.credentials = credentials, !.path = out.path,
                                  !.resp = MaterializedResponse]
        /\ UNCHANGED pr
        /\ UNCHANGED svars

-----------------------------------------------------------------------------
(* PrefixedReader, _urllib.py lines 35-71 *)

MaxPrefix == 2       \* longest header block handed to a PrefixedReader directly
MaxRead   == 3       \* largest len(b) passed to PrefixedReader.readinto
MaxRaise  == 1       \* reads of the body stream that raise

HTTP11 == <<72, 84, 84, 80, 47, 49, 46, 49, 32>>       \* b"HTTP/1.1 "

Body(n) == [k \in 1..n |-> BodyByte(k)]

\* PrefixedReader(prefix, reader)
PrefixedReader(prefix, data) ==
    [made |-> TRUE, has_prefix |-> TRUE, prefix |-> prefix, H |-> prefix,
     data |-> data, pos |-> 0, returned |-> << >>, nraise |-> 0]

\* self._reader.read(n) of the io.BufferedReader: up to n bytes, fewer only at EOF
ReaderRead(p, n) == SubSeq(p.data, p.pos + 1, Min(p.pos + n, Len(p.data)))

\* does readinto(b) with len(b) = size call self._reader.read, and for how many bytes
ReadAmount(p, size) ==
    IF p.has_prefix
        THEN IF Len(p.prefix) <= size THEN size - Len(p.prefix) ELSE 0
        ELSE size

\* buf at the end of readinto when no read raises
ReadintoBuf(p, size) ==
    IF p.has_prefix
        THEN IF Len(p.prefix) <= size
                 THEN p.prefix \o ReaderRead(p, size - Len(p.prefix))
                 ELSE SubSeq(p.prefix, 1, size)
        ELSE ReaderRead(p, size)

\* the object after that readinto
ReadintoNext(p, size) ==
    LET buf == ReadintoBuf(p, size)
    IN  IF p.has_prefix
            THEN IF Len(p.prefix) <= size
                     THEN [p EXCEPT !.has_prefix = FALSE, !.prefix = << >>,
                                    !.pos = @ + (Len(buf) - Len(p.prefix)),
                                    !.returned = @ \o buf]
                     ELSE [p EXCEPT !.prefix = SubSeq(p.prefix, size + 1, Len(p.prefix)),
                                    !.returned = @ \o buf]
            ELSE [p EXCEPT !.pos = @ + Len(buf), !.returned = @ \o buf]

\* the object after a readinto whose self._reader.read raised: line 54 has
\* dropped the prefix before line 56 reads
ReadintoRaised(p, size) ==
    IF p.has_prefix
        THEN [p EXCEPT !.has_prefix = FALSE, !.prefix = << >>, !.nraise = @ + 1]
        ELSE [p EXCEPT !.nraise = @ + 1]

NewPrefixedReader(h, n) ==
    /\ pr' = PrefixedReader(SubSeq(HTTP11, 1, h), Body(n))
    /\ last' = [NoLast EXCEPT !.op = "PrefixedReader", !.kind = "PrefixedReader"]
    /\ UNCHANGED svars

PrefixedReadinto(size) ==
    /\ pr.made
    /\ pr' = ReadintoNext(pr, size)
    /\ last' = [NoLast EXCEPT !.op = "readinto", !.kind = "int", !.size = size,
                              !.ret = Len(ReadintoBuf(pr, size))]
    /\ UNCHANGED svars

\* the body stream's read raises (a _StreamingTimeout of _ReadStream.readinto)
PrefixedReadintoRaise(size) ==
    /\ pr.made
    /\ pr.nraise < MaxRaise
    /\ ReadAmount(pr, size) > 0
    /\ pr' = ReadintoRaised(pr, size)
    /\ last' = [NoLast EXCEPT !.op = "readinto", !.kind = "_StreamingTimeout",
                              !.size = size]
    /\ UNCHANGED svars

-----------------------------------------------------------------------------
(* urlopen, _urllib.py lines 74-149, and the HTTPResponse.begin it calls *)

UrlBody == 2         \* bytes of the body of a Response handed to urlopen

CONTENT_LENGTH ==
    TextDecode(<<99, 111, 110, 116, 101, 110, 116, 45, 108, 101, 110, 103, 116, 104>>)
TRANSFER_ENCODING ==
    TextDecode(<<116, 114, 97, 110, 115, 102, 101, 114, 45, 101, 110, 99, 111, 100,
                 105, 110, 103>>)

\* response headers: Content-Length: 5, TRANSFER-ENCODING: c, Via: b and
\* X-Id: p\xe9 (a value with a byte above 127, as XMLHttpRequest and fetch
\* hand it over)
HeaderPool ==
    <<[k |-> TextDecode(<<67, 111, 110, 116, 101, 110, 116, 45, 76, 101, 110, 103,
                          116, 104>>),
       v |-> TextDecode(<<53>>)],
      [k |-> TextDecode(<<84, 82, 65, 78, 83, 70, 69, 82, 45, 69, 78, 67, 79, 68,
                          73, 78, 71>>),
       v |-> TextDecode(<<99>>)],
      [k |-> TextDecode(<<86, 105, 97>>), v |-> TextDecode(<<98>>)],
      [k |-> TextDecode(<<88, 45, 73, 100>>), v |-> TextDecode(<<112, 233>>)]>>

\* the header mappings of a Response, in insertion order
ResponseHeaders ==
    {SelectSeq(HeaderPool, LAMBDA h : h \in S) : S \in SUBSET Range(HeaderPool)}

\* final HTTP statuses (the browser consumes 1xx responses itself)
Statuses == {200, 299, 300, 404}

Responses == [status_code : Statuses, headers : ResponseHeaders, stream : BOOLEAN]

Urls == {"https://a.test/x", "https://b.test/y"}

\* str(n), n >= 0
RECURSIVE IntStr(_)
IntStr(n) ==
    IF n < 10 THEN <<CharBase + 48 + n>>
    ELSE IntStr(n \div 10) \o <<CharBase + 48 + (n % 10)>>

\* "\n".join(lines)
RECURSIVE Join(_)
Join(lines) ==
    IF lines = << >> THEN << >>
    ELSE IF Len(lines) = 1 THEN lines[1]
    ELSE lines[1] \o <<CharBase + 10>> \o Join(Tail(lines))

\* str.encode("ascii") raises UnicodeEncodeError unless every code point is below 128
IsAscii(str) == \A i \in 1..Len(str) : str[i] - CharBase < 128
EncodeAscii(str) == [i \in 1..Len(str) |-> str[i] - CharBase]

\* the filter without its lower()
headers_without_content_length_AsReceived(headers) ==
    SelectSeq(headers, LAMBDA h : h.k \notin {CONTENT_LENGTH, TRANSFER_ENCODING})

\* lines 103-105
headers_without_content_length(headers) ==
    SelectSeq(headers, LAMBDA h : Lower(h.k) \notin {CONTENT_LENGTH, TRANSFER_ENCODING})

\* "\n".join(f"{key}: {value}" ...)
HeaderText(headers) ==
    Join([i \in 1..Len(headers) |->
            headers[i].k \o <<CharBase + 58, CharBase + 32>> \o headers[i].v])

\* lines 108-116 and 123-130
response_header(resp) ==
    HTTP11 \o EncodeAscii(IntStr(resp.status_code)) \o <<10>>
        \o EncodeAscii(HeaderText(headers_without_content_length(resp.headers)))
        \o <<10, 10>>

\* fp.readline(): the bytes from i up to and including the next b"\n"
RECURSIVE LineEnd(_, _)
LineEnd(bytes, i) ==
    IF i > Len(bytes) THEN Len(bytes)
    ELSE IF bytes[i] = 10 THEN i
    ELSE LineEnd(bytes, i + 1)
ReadLine(bytes, i) == SubSeq(bytes, i, LineEnd(bytes, i))

\* int(...) of decimal digits
RECURSIVE ParseInt(_)
ParseInt(digits) ==
    IF digits = << >> THEN 0
    ELSE 10 * ParseInt(SubSeq(digits, 1, Len(digits) - 1))
            + (digits[Len(digits)] - 48)

\* HTTPResponse._read_status: the second whitespace-separated word of the line
ReadStatus(line) ==
    LET sp == CHOOSE i \in 1..Len(line) :
                  line[i] = 32 /\ \A j \in 1..(i - 1) : line[j] # 32
    IN  ParseInt(SubSeq(line, sp + 1, Len(line) - 1))

\* parse_headers: the lines from i up to the first blank line
RECURSIVE HeaderLines(_, _)
HeaderLines(bytes, i) ==
    LET line == ReadLine(bytes, i)
    IN  IF line = << >> \/ line = <<10>> THEN << >>
        ELSE <<line>> \o HeaderLines(bytes, i + Len(line))

\* bytes begin() has read when the headers are parsed
RECURSIVE HeadersEnd(_, _)
HeadersEnd(bytes, i) ==
    LET line == ReadLine(bytes, i)
    IN  IF line = << >> THEN i - 1
        ELSE IF line = <<10>> THEN i
        ELSE HeadersEnd(bytes, i + Len(line))

RECURSIVE LStrip(_)
LStrip(str) ==
    IF str # << >> /\ str[1] - CharBase \in {32, 9} THEN LStrip(Tail(str)) ELSE str

\* one header line, decoded as iso-8859-1: name before the first colon, value
\* after it without leading blanks and without the line end
ParseHeader(line) ==
    LET colon == CHOOSE i \in 1..Len(line) :
                     line[i] = 58 /\ \A j \in 1..(i - 1) : line[j] # 58
    IN  [k |-> TextDecode(SubSeq(line, 1, colon - 1)),
         v |-> LStrip(TextDecode(SubSeq(line, colon + 1, Len(line) - 1)))]

ParseHeaders(bytes, i) ==
    LET lines == HeaderLines(bytes, i)
    IN  [j \in 1..Len(lines) |-> ParseHeader(lines[j])]

\* begin() reads the stream one byte at a time (IOBase.readline over a raw stream)
RECURSIVE ReadBytes(_, _)
ReadBytes(p, n) == IF n = 0 THEN p ELSE ReadBytes(ReadintoNext(p, 1), n - 1)

\* what begin() makes of the block: status and headers parsed, bytes read
Begin(block) ==
    LET first == ReadLine(block, 1)
    IN  [status |-> ReadStatus(first),
         msg    |-> ParseHeaders(block, Len(first) + 1),
         nread  |-> HeadersEnd(block, Len(first) + 1)]

\* lines 107-149: the envelope is built, parsed and judged by its status
UrlopenEnvelope(url, resp, block, begun) ==
    LET kind == IF begun.status < 100 \/ begun.status > 999 THEN "BadStatusLine"
                ELSE IF ~(200 <= begun.status /\ begun.status < 300) THEN "HTTPError"
                ELSE "HTTPResponse"
    IN  /\ last' = [NoLast EXCEPT !.op = "urlopen", !.kind = kind,
                                  !.arg = url, !.resp = resp, !.block = block,
                                  !.status = begun.status, !.headers = begun.msg,
                                  !.url = url]
        /\ pr' = IF resp.stream
                     THEN ReadBytes(PrefixedReader(block, Body(UrlBody)), begun.nread)
                     ELSE pr

\* urlopen(url) once send(request) has returned resp
Urlopen(url, resp) ==
    /\ IF ~IsAscii(HeaderText(headers_without_content_length(resp.headers)))
           THEN /\ last' = [NoLast EXCEPT !.op = "urlopen",
                                          !.kind = "UnicodeEncodeError",
                                          !.arg = url, !.resp = resp]
                /\ UNCHANGED pr
           ELSE \E block \in {response_header(resp)} :
                    \E begun \in {Begin(block)} :
                        UrlopenEnvelope(url, resp, block, begun)
    /\ UNCHANGED svars

-----------------------------------------------------------------------------

\* calls of send and of urlopen
NextUrl ==
    \/ \E hs \in RequestHeaders : \E st \in BOOLEAN : \E w \in BOOLEAN : CoreSend(hs, st, w)
    \/ \E url \in Urls : \E resp \in Responses : Urlopen(url, resp)

\* urlopen builds its Request without a timeout (line 85)
InitUrlopen == Init /\ \A c \in chans : request[c].timeout = 0

SpecUrl == InitUrlopen /\ [][NextUrl]_vars

\* a PrefixedReader over any header block and body stream, read with any buffer sizes
NextReader ==
    \/ \E h \in 1..MaxPrefix : \E n \in 0..MaxBody : NewPrefixedReader(h, n)
    \/ \E size \in 0..MaxRead : PrefixedReadinto(size)
    \/ \E size \in 0..MaxRead : PrefixedReadintoRaise(size)

SpecReader == Init /\ [][NextReader]_vars

-----------------------------------------------------------------------------
(* Properties *)

IsPrefix(a, b) == Len(a) <= Len(b) /\ SubSeq(b, 1, Len(a)) = a

\* text occurs in message as a contiguous run
Contains(message, text) ==
    \E i \in 0..(Len(message) - Len(text)) :
        SubSeq(message, i + 1, i + Len(text)) = text

\* close/forget messages posted for connection id cid
CloseCount(cid) ==
    Cardinality({i \in 1..Len(msgs) : msgs[i].type = "close" /\ msgs[i].arg = cid})

Errors == {"_StreamingError", "_StreamingTimeout"}

\* C1: when a readinto call observes EOF and returns 0, the bytes the readinto
\* calls on the stream have returned are exactly the bytes the worker delivered
\* on the connection, in order.
C1_ChunkReassembly ==
    \A c \in chans :
        (res.op = "readinto" /\ res.chan = c /\ res.sig = SUCCESS_EOF /\ res.ret = 0)
            => hist[c].received = hist[c].delivered

\* The same on streams none of whose waits timed out; there the bytes returned
\* are also a prefix of the bytes delivered at every moment.
ReassemblyWithoutTimeout ==
    \A c \in chans :
        ~hist[c].readTimedOut =>
            /\ IsPrefix(hist[c].received, hist[c].delivered)
            /\ (res.op = "readinto" /\ res.chan = c /\ res.sig = SUCCESS_EOF
                    /\ res.ret = 0)
                  => hist[c].received = hist[c].delivered

\* C2: on one Control Channel the consumer never has posted a second command
\* (start, getMore) before consuming the signal that answers the previous one.
C2_SingleOutstandingCommand ==
    \A c \in chans : hist[c].ncmd - hist[c].nconsumed <= 1

\* C3: once a readinto call has observed EOF, no readinto call on that stream
\* posts a command or waits, and each returns 0.
C3_PostEofIdempotent ==
    \A c \in chans :
        /\ (pc \in ReadPcs /\ cur = c) => ~hist[c].eofObserved
        /\ (res.op = "readinto" /\ res.chan = c /\ res.afterEof)
              => (res.kind = "int" /\ res.ret = 0 /\ ~res.posted
                    /\ res.waited = "none")

\* C3 witness: a readinto call made after EOF was observed has returned
C3_Witness ==
    \E c \in chans :
        /\ res.op = "readinto" /\ res.chan = c /\ res.afterEof
        /\ hist[c].eofObserved /\ pc = "idle"

\* C4: at most one close/forget message is ever posted for a stream's
\* connection id.
C4_DisposalAtMostOnce ==
    \A c \in chans :
        /\ CloseCount(ConnId(c)) <= 1
        /\ phase[c] = "open" => CloseCount(stream[c].connection_id) <= 1

\* C4 witness: a stream that observed EOF, was closed and was finalized
C4_Witness ==
    \E c \in chans :
        /\ phase[c] = "open" /\ hist[c].eofObserved
        /\ stream[c].closed /\ stream[c].finalized
        /\ CloseCount(stream[c].connection_id) = 1

\* C5: once a stream is disposed of, by an explicit close or by finalization,
\* a close/forget message carrying its connection id has been posted.
C5_DisposalNotifies ==
    \A c \in chans :
        (phase[c] = "open" /\ (stream[c].closed \/ stream[c].finalized))
            => CloseCount(stream[c].connection_id) >= 1

\* C6: when send observes HEADER_READY it returns a Response whose status_code
\* and headers are the ones the worker encoded, with stream=True and a live
\* read stream bound to the encoded connectionID and to the request's channel.
C6_HeaderDecode ==
    \A c \in chans :
        (res.op = "send" /\ res.chan = c /\ res.sig = SUCCESS_HEADER)
            => /\ res.kind = "Response"
               /\ res.resp.status_code = wk[c].hdr.status
               /\ res.resp.headers = wk[c].hdr.headers
               /\ res.resp.stream
               /\ res.resp.body.connection_id = wk[c].hdr.connectionID
               /\ res.resp.body.int_buffer = c
               /\ res.resp.body.byte_buffer = c
               /\ phase[c] = "open"
               /\ stream[c].int_buffer = c
               /\ stream[c].connection_id = wk[c].hdr.connectionID

\* C6 witness: send has returned on a header that carries a header field
C6_Witness ==
    \E c \in chans :
        /\ res.op = "send" /\ res.chan = c /\ res.sig = SUCCESS_HEADER
        /\ res.kind = "Response"
        /\ wk[c].hdr.headers # << >>

\* C7: when send observes EXCEPTION it raises a streaming error whose message
\* contains the decoded payload message and whose request is the original
\* request, and it returns no Response.
C7_ExceptionBeforeHeader ==
    \A c \in chans :
        (res.op = "send" /\ res.chan = c /\ res.sig = ERROR_EXCEPTION)
            => /\ res.kind = "_StreamingError"
               /\ Contains(res.message, wk[c].text)
               /\ res.request = c
               /\ res.resp = NoResponse
               /\ phase[c] = "failed"

\* C7 witness: send has raised on an exception signal with a two-character text
C7_Witness ==
    \E c \in chans :
        /\ res.op = "send" /\ res.chan = c /\ res.sig = ERROR_EXCEPTION
        /\ Len(wk[c].text) = 2

C9_WorkerTimeoutRaises ==
    (res.op \in {"send", "readinto"} /\ res.sig = ERROR_TIMEOUT)
        => res.kind = "_StreamingTimeout"

\* C10: a value of slot 0 that is no recognised signal for the step makes the
\* call fail with an error.
C10_ProtocolViolationLoud ==
    /\ (res.op = "send"
          /\ res.sig \notin {SUCCESS_HEADER, ERROR_TIMEOUT, ERROR_EXCEPTION, 0})
        => res.kind \in Errors
    /\ (res.op = "readinto" /\ res.waited \in {"ok", "not-equal"}
          /\ ~(res.sig > 0 /\ res.sig <= PayloadSize)
          /\ res.sig \notin {SUCCESS_EOF, ERROR_TIMEOUT, ERROR_EXCEPTION})
        => res.kind \in Errors

\* signals the worker has written into channel c: one per command it has taken
NSignals(c) ==
    Cardinality({i \in 1..whead :
        \/ msgs[i].type = "start" /\ msgs[i].arg = c
        \/ msgs[i].type = "getMore" /\ msgs[i].arg = ConnId(c)})

WaitPcs == {"send_posted", "send_waiting", "send_woke",
            "read_posted", "read_waiting", "read_woke"}

\* C11: after a wait on a channel has timed out, closing or finalizing the
\* stream completes in one step, without raising and without entering another
\* wait on the channel; after a send that timed out nothing waits on the
\* channel again.
C11_TimeoutIsolation ==
    [][\A c \in chans :
          /\ (hist[c].readTimedOut
                /\ (stream'[c].closed # stream[c].closed
                      \/ stream'[c].finalized # stream[c].finalized))
               => (pc' = "idle" /\ res' = res /\ shared_buffer' = shared_buffer)
          /\ (phase[c] = "failed" /\ res.chan = c /\ res.waited = "timed-out")
               => ~(pc' \in WaitPcs /\ cur' = c)]_vars

\* C11 witness: a stream one of whose waits timed out has been closed and finalized
C11_Witness ==
    \E c \in chans :
        /\ hist[c].readTimedOut
        /\ stream[c].closed /\ stream[c].finalized
        /\ pc = "idle"

\* C14: a readinto call that observes EXCEPTION raises a streaming error that
\* carries the decoded message, and has released the channel when it raises.
C14_ReadExceptionReleases ==
    \A c \in chans :
        (res.op = "readinto" /\ res.chan = c /\ res.sig = ERROR_EXCEPTION)
            => /\ res.kind = "_StreamingError"
               /\ NotIntBuffer(stream[c])
               /\ Contains(res.message, wk[c].text)

\* C15: when a readinto call observes EOF and returns 0, the stream is dead and
\* a close/forget message for its connection id has been posted.
C15_EofStep ==
    \A c \in chans :
        (res.op = "readinto" /\ res.chan = c /\ res.sig = SUCCESS_EOF /\ res.ret = 0)
            => /\ NotIntBuffer(stream[c])
               /\ CloseCount(stream[c].connection_id) >= 1

\* C16: the consumer's reset store never overwrites a signal it has not
\* consumed, and the worker writes a channel only when no earlier signal is
\* unconsumed and the consumer holds no unread payload bytes.
C16_WriteExclusion ==
    [][\A c \in chans :
          /\ (shared_buffer[c].int0 # 0 /\ shared_buffer'[c].int0 = 0)
               => NSignals(c) = hist[c].nconsumed
          /\ (NSignals(c)' # NSignals(c))
               => /\ NSignals(c) = hist[c].nconsumed
                  /\ stream[c].read_len = 0]_vars

\* C19: for a request with timeout 0 no wait of send or of a read on the
\* stream times out and no streaming timeout is raised; a call that waited
\* acts on the non-zero value the worker wrote.
C19_TimeoutZeroUnbounded ==
    \A c \in chans :
        request[c].timeout = 0 =>
            /\ ~hist[c].readTimedOut
            /\ cur = c => wait_result # "timed-out"
            /\ res.chan = c =>
                 /\ res.waited # "timed-out"
                 /\ res.kind # "_StreamingTimeout"
                 /\ res.posted => res.sig # 0

\* C19 witness: with timeout 0, a read that waited has returned a chunk
C19_Witness ==
    \E c \in chans :
        /\ request[c].timeout = 0
        /\ res.op = "readinto" /\ res.chan = c /\ res.posted
        /\ res.waited = "ok" /\ res.sig > 0 /\ res.ret > 0

\* the channel a posted message is for
MsgChan(m) == IF m.type = "start" THEN m.arg
              ELSE CHOOSE c \in chans : ConnId(c) = m.arg

\* the signal slot, payload and cursor state of channel d are left as they are
ChannelKept(d) ==
    /\ shared_buffer'[d] = shared_buffer[d]
    /\ stream'[d].read_pos = stream[d].read_pos
    /\ stream'[d].read_len = stream[d].read_len
    /\ stream'[d].int_buffer = stream[d].int_buffer

\* a step that posts a command for one channel, or in which the worker answers
\* one for it, leaves every other channel as it is
OtherChannelsKept ==
    /\ Len(msgs') > Len(msgs) =>
         \A d \in chans \ {MsgChan(msgs'[Len(msgs')])} : ChannelKept(d)
    /\ whead' > whead =>
         \A d \in chans \ {MsgChan(msgs[whead'])} : ChannelKept(d)

\* the bytes channel c's stream has returned came from c's own body
OwnBytes(c) ==
    \A i \in 1..Len(hist[c].received) :
        \E k \in 1..MaxBody : hist[c].received[i] = ChanByte(c, k)

\* C17: with two streams open against the same worker, for every interleaving
\* of their reads and of the worker's answers, the bytes each stream has
\* returned are exactly the bytes delivered for its own connection id, in
\* order (all of them once it has observed EOF), and a command or signal for
\* one connection id never changes another channel's slot, payload or cursors.
C17_ChannelIndependence ==
    [][/\ \A c \in chans :
            /\ IsPrefix(hist'[c].received, hist'[c].delivered)
            /\ hist'[c].eofObserved => hist'[c].received = hist'[c].delivered
       /\ OtherChannelsKept]_vars

\* What holds of two streams however their reads and the worker's answers
\* interleave: no step for one channel changes the other, every byte a stream
\* returns is a byte of its own body, and a stream none of whose waits timed
\* out returns exactly the bytes delivered for it.
IndependenceProper ==
    [][/\ OtherChannelsKept
       /\ \A c \in chans :
            /\ OwnBytes(c)'
            /\ ~hist'[c].readTimedOut =>
                 /\ IsPrefix(hist'[c].received, hist'[c].delivered)
                 /\ hist'[c].eofObserved => hist'[c].received = hist'[c].delivered]_vars

\* both streams have returned bytes, their reads interleaved
TwoStreamsInterleaved ==
    /\ chans = {1, 2}
    /\ \A c \in chans : Len(hist[c].received) >= 1
    /\ \E c \in chans : hist[c].eofObserved /\ hist[c].received = hist[c].delivered
    /\ \E c \in chans : ~hist[c].eofObserved /\ phase[c] = "open"

\* C12: a send(request, stream=False) whose request needs no proxying returns
\* a Response with stream False from the non-streaming path, and
\* send_streaming_request is called only when the caller asked for streaming.
C12_ExplicitNoStreaming ==
    last.op = "send" =>
        /\ (~last.stream /\ ~last.proxy) =>
              /\ last.kind = "Response"
              /\ ~last.resp.stream
              /\ last.path = "XMLHttpRequest"
        /\ last.path = "send_streaming_request" => last.stream

\* a header name that is content-length or transfer-encoding in some letter case
IsFraming(k) == Lower(k) \in {CONTENT_LENGTH, TRANSFER_ENCODING}

\* the headers of resp other than those, as received
OtherHeaders(resp) == SelectSeq(resp.headers, LAMBDA h : ~IsFraming(h.k))

\* urlopen answered resp as its status demands
StatusSurfaced ==
    IF 200 <= last.resp.status_code /\ last.resp.status_code <= 299
        THEN last.kind = "HTTPResponse"
        ELSE /\ last.kind = "HTTPError"
             /\ last.status = last.resp.status_code
             /\ last.headers = OtherHeaders(last.resp)
             /\ last.url = last.arg

\* C13: for every Response, streamed or not, whose status is outside 200..299
\* urlopen raises an HTTPError with that status, the headers parsed back from
\* the envelope and the URL, and returns no response object; for every status
\* inside 200..299 it returns the response.
C13_HttpStatusError ==
    last.op = "urlopen" => StatusSurfaced

\* The same for the Responses all of whose kept header lines are ASCII.
StatusErrorOnAsciiHeaders ==
    (last.op = "urlopen" /\ IsAscii(HeaderText(OtherHeaders(last.resp))))
        => StatusSurfaced

\* the header lines of a synthesized block, line ends included
BlockLines(block) == HeaderLines(block, Len(ReadLine(block, 1)) + 1)

\* C20: the header block urlopen synthesizes for a Response, streamed or not,
\* has no line whose name is content-length or transfer-encoding in any
\* letter case, and has a line "name: value" for every other header of the
\* Response, name and value as received.
C20_EnvelopeHeaderStripping ==
    (last.op = "urlopen" /\ last.block # << >>) =>
        LET lines == BlockLines(last.block)
            other == OtherHeaders(last.resp)
        IN  /\ \A j \in 1..Len(lines) : ~IsFraming(ParseHeader(lines[j]).k)
            /\ \A i \in 1..Len(other) :
                 \E j \in 1..Len(lines) :
                     lines[j] = EncodeAscii(other[i].k
                                    \o <<CharBase + 58, CharBase + 32>>
                                    \o other[i].v) \o <<10>>

\* C20 witness: a block was synthesized for a streamed Response that has a
\* Content-Length in mixed case, a TRANSFER-ENCODING and another header
C20_Witness ==
    /\ last.op = "urlopen" /\ last.block # << >>
    /\ last.resp.stream
    /\ \E i \in 1..Len(last.resp.headers) :
          /\ Lower(last.resp.headers[i].k) = CONTENT_LENGTH
          /\ last.resp.headers[i].k # CONTENT_LENGTH
    /\ \E i \in 1..Len(last.resp.headers) :
          Lower(last.resp.headers[i].k) = TRANSFER_ENCODING
    /\ Len(OtherHeaders(last.resp)) >= 1
    /\ Len(BlockLines(last.block)) >= 1

\* the reader has returned the first bytes of H followed by S, and a readinto
\* with a positive buffer size returned 0 only with H served and S at its end
Continuous ==
    /\ IsPrefix(pr.returned, pr.H \o pr.data)
    /\ (last.op = "readinto" /\ last.kind = "int" /\ last.size > 0 /\ last.ret = 0)
          => /\ ~pr.has_prefix
             /\ Len(pr.returned) = Len(pr.H) + Len(pr.data)

\* C18: for every header block H, body stream S and sequence of buffer sizes,
\* the bytes PrefixedReader.readinto has returned are H followed by the bytes
\* of S, none lost, duplicated or reordered, and a readinto with a positive
\* buffer size returns 0 only when H is fully served and S is at EOF.
C18_ContinuousEnvelope ==
    pr.made => Continuous

\* The same as long as no read of the body stream has raised.
ContinuousWithoutRaise ==
    (pr.made /\ pr.nraise = 0) => Continuous

\* a read across the boundary has returned the rest of H and the start of S
BoundaryCrossed ==
    /\ pr.made /\ pr.nraise = 0
    /\ last.op = "readinto" /\ last.size > Len(pr.H)
    /\ Len(pr.returned) > Len(pr.H)
    /\ pr.returned = SubSeq(pr.H \o pr.data, 1, Len(pr.returned))

PostedPcs == {"send_posted", "read_posted"}
WokePcs   == {"send_woke", "read_woke"}

\* A call whose wait has returned is never stuck: its next step, which reads
\* slot 0 and returns or raises, can always be taken.
WokeProceeds ==
    pc \in WokePcs =>
        ENABLED (\E c \in chans : SendDispatch(c) \/ ReadDispatch(c))

\* C21: send and readinto store 0 in slot 0 and post their command in one go;
\* when the worker has written its signal before the wait is entered, the
\* wait returns at once with "not-equal" instead of blocking, the call can
\* always take its next step, and it completes without a timeout, acting on
\* the non-zero value the worker wrote: send builds the Response from a header
\* signal, readinto returns the bytes of a chunk signal.
C21_NoLostWakeup ==
    [][/\ WokeProceeds
       /\ \A c \in chans :
          /\ (pc = "idle" /\ pc' \in PostedPcs /\ cur' = c)
               => /\ shared_buffer'[c].int0 = 0
                  /\ Len(msgs') = Len(msgs) + 1
          /\ (pc \in PostedPcs /\ cur = c /\ shared_buffer[c].int0 = 0
                /\ shared_buffer'[c].int0 # 0)
               => NSignals(c)' = NSignals(c) + 1
          /\ (pc \in PostedPcs /\ cur = c /\ pc' # pc /\ shared_buffer[c].int0 # 0)
               => (pc' \in WokePcs /\ wait_result' = "not-equal")
          /\ (pc \in WokePcs /\ cur = c /\ wait_result = "not-equal" /\ pc' # pc)
               => /\ pc' = "idle"
                  /\ res'.chan = c
                  /\ res'.waited = "not-equal"
                  /\ res'.kind \notin {"_StreamingTimeout", "none"}
                  /\ res'.sig # 0
                  /\ res'.sig = shared_buffer[c].int0
                  /\ (pc = "send_woke" /\ res'.sig = SUCCESS_HEADER)
                        => res'.kind = "Response"
                  /\ (pc = "read_woke" /\ res'.sig > 0)
                        => /\ res'.kind = "int"
                           /\ res'.ret = Min(res'.sig, byte_obj)]_vars

\* C21 witness: a readinto whose chunk signal was written before it entered
\* its wait has returned the chunk's bytes
C21_Witness ==
    \E c \in chans :
        /\ res.op = "readinto" /\ res.chan = c
        /\ res.waited = "not-equal"
        /\ res.sig > 0 /\ res.ret > 0
        /\ hist[c].received # << >>
        /\ ~hist[c].readTimedOut

====
